---- MODULE Spec2Model ----
(***************************************************************************)
(* Model of the winit/wgpu application in src/src/lib.rs: the App event    *)
(* handler (resumed, window_event) and State (new, resize, redraw).        *)
(*                                                                         *)
(* Numbers: f32 values are kept in thousandths (0.1 is 100, 45.0 is        *)
(* 45000); the f32 quotient of two window dimensions is kept as the        *)
(* reduced fraction it rounds, so two aspects are equal exactly when the   *)
(* quotients are.                                                          *)
(***************************************************************************)
EXTENDS Integers, Sequences, FiniteSets, TLC

VARIABLES
    state,        \* App.state: NoState (None) or the State record (Some)
    window,       \* the winit window: existence, inner size, pending redraw request
    event_loop,   \* the ActiveEventLoop: whether exit() was called
    pc,           \* position of the running handler ("Idle" between events)
    frame,        \* what the redraw in progress (or the last one) has done
    last_event,   \* the window event dispatched last
    resize_repeated \* the last two dispatched events were the same resize of this window

vars == <<state, window, event_loop, pc, frame, last_event, resize_repeated>>

----------------------------------------------------------------------------
(* Bounds and program constants *)

\* the window system offers the sizes 320*i x 240*i up to this index, and
\* the size the window is created with
MaxSizeIndex == 2

WINDOW_WIDTH == 1280
WINDOW_HEIGHT == 720
WINDOW_SIZE == [width |-> WINDOW_WIDTH, height |-> WINDOW_HEIGHT]

Sizes ==
    {[width |-> 320 * i, height |-> 240 * i] : i \in 1..MaxSizeIndex} \cup {WINDOW_SIZE}

\* std::f32::consts::FRAC_PI_2 in thousandths (1.5707...)
FRAC_PI_2 == 1570
PI == 2 * FRAC_PI_2

FOVY == 45000
Z_NEAR == 100
Z_FAR == 100000
INDEX_COUNT == 6
FRAME_LATENCY == 2

----------------------------------------------------------------------------
(* Exact fractions *)

Abs(x) == IF x < 0 THEN -x ELSE x

RECURSIVE GCD(_, _)
GCD(a, b) == IF b = 0 THEN a ELSE GCD(b, a % b)

\* n/d in lowest terms with a positive denominator
Frac(n, d) ==
    LET g == GCD(Abs(n), Abs(d))
        s == IF d < 0 THEN -1 ELSE 1
    IN  [num |-> s * (n \div g), den |-> s * (d \div g)]

FracSub(a, b) == Frac(a.num * b.den - b.num * a.den, a.den * b.den)
FracHalf(a) == Frac(a.num, 2 * a.den)
FracInv(a) == Frac(a.den, a.num)

\* `width as f32 / height as f32`
AspectOf(size) == Frac(size.width, size.height)

----------------------------------------------------------------------------
(* Projection, Camera and the matrix uploaded to the uniform buffer *)

\* na::Matrix4::new_perspective(aspect, fovy, znear, zfar): the entries that
\* are not 0; cot(fovy/2) is kept as the angle it is taken of.
NewPerspective(aspect, fovy, znear, zfar) ==
    [ m11 |-> [cot_half |-> fovy, times |-> FracInv(aspect)],
      m22 |-> [cot_half |-> fovy, times |-> Frac(1, 1)],
      m33 |-> Frac(zfar + znear, znear - zfar),
      m34 |-> Frac(2 * zfar * znear, (znear - zfar) * 1000),
      m43 |-> Frac(-1, 1) ]

\* OPENGL_TO_WGPU_MATRIX * m: row 3 becomes 0.5*row3 + 0.5*row4
OpenglToWgpu(m) ==
    [ m11 |-> m.m11,
      m22 |-> m.m22,
      m33 |-> FracSub(FracHalf(m.m33), Frac(1, 2)),
      m34 |-> FracHalf(m.m34),
      m43 |-> m.m43 ]

\* Projection::to_matrix
ToMatrix(p) == OpenglToWgpu(NewPerspective(p.aspect, p.fovy, p.z_near, p.z_far))

\* Camera(look_at_rh(eye, target, up)) as built in State::new
InitCamera == [eye |-> <<0, 1, 2>>, target |-> <<0, 0, 0>>, up |-> <<0, 1, 0>>]

\* `projection.to_matrix() * camera.0.to_matrix()`, kept as its two factors
Mvp(projection, camera) == [proj |-> ToMatrix(projection), view |-> camera]

\* the Projection literal of State::new
InitProjection ==
    [ aspect |-> AspectOf(WINDOW_SIZE),
      fovy   |-> FOVY,
      z_near |-> Z_NEAR,
      z_far  |-> Z_FAR ]

----------------------------------------------------------------------------
(* Surface capabilities and configuration *)

\* what surface.get_capabilities can report: the format lists of an adapter
\* with an sRGB format that is not the first, and of one without any
CapsFormats == { <<"Bgra8Unorm", "Bgra8UnormSrgb">>, <<"Rgba8Unorm">> }

IsSrgb(f) == f \in {"Bgra8UnormSrgb", "Rgba8UnormSrgb"}

\* formats.iter().find(|f| f.is_srgb()).copied().unwrap_or(formats[0])
ChooseFormat(formats) ==
    IF \E i \in 1..Len(formats) : IsSrgb(formats[i])
    THEN formats[CHOOSE i \in 1..Len(formats) :
                    /\ IsSrgb(formats[i])
                    /\ \A j \in 1..(i - 1) : ~IsSrgb(formats[j])]
    ELSE formats[1]

\* Texture::create_depth_texture(device, config, label)
CreateDepthTexture(config) ==
    [ width |-> config.width, height |-> config.height, format |-> "Depth32Float" ]

\* TextureVertex::RECT_VERTICES: pos x and y in thousandths (z is 0.0), by
\* vertex number 0..3
RECT_VERTICES ==
    << [x |-> 500, y |-> 500], [x |-> -500, y |-> 500],
       [x |-> -500, y |-> -500], [x |-> 500, y |-> -500] >>

\* an index list whose second triangle is wound the other way
RECT_INDICES_Clockwise == <<0, 1, 2, 0, 3, 2>>

\* TextureVertex::RECT_INDICES
RECT_INDICES == <<0, 1, 2, 0, 2, 3>>

NoState == [tag |-> "None"]

\* State::new that builds the pipeline for the first reported format, not
\* for the format it configures the surface with
NewState_PipelineFirstFormat(size, formats) ==
    LET format == ChooseFormat(formats)
        config == [ format |-> format,
                    width |-> size.width,
                    height |-> size.height,
                    present_mode |-> "caps.present_modes[0]",
                    alpha_mode |-> "caps.alpha_modes[0]",
                    desired_maximum_frame_latency |-> FRAME_LATENCY ]
    IN  [ tag |-> "Some",
          surface |-> [configured |-> FALSE, width |-> 0, height |-> 0],
          config |-> config,
          pipeline |-> [color_format |-> formats[1], vertex_layout |-> "TextureVertex"],
          vertex_layout |-> "TextureVertex",
          vertex_buffer |-> RECT_VERTICES,
          index_buffer |-> RECT_INDICES,
          index_count |-> INDEX_COUNT,
          projection |-> InitProjection,
          projection_buffer |-> Mvp(InitProjection, InitCamera),
          camera |-> InitCamera,
          depth_texture |-> CreateDepthTexture(config) ]

\* State::new(window) for a window of inner size `size` on an adapter that
\* reports `formats`
NewState(size, formats) ==
    LET format == ChooseFormat(formats)
        config == [ format |-> format,
                    width |-> size.width,
                    height |-> size.height,
                    present_mode |-> "caps.present_modes[0]",
                    alpha_mode |-> "caps.alpha_modes[0]",
                    desired_maximum_frame_latency |-> FRAME_LATENCY ]
    IN  [ tag |-> "Some",
          surface |-> [configured |-> FALSE, width |-> 0, height |-> 0],
          config |-> config,
          pipeline |-> [color_format |-> format, vertex_layout |-> "TextureVertex"],
          vertex_layout |-> "TextureVertex",
          vertex_buffer |-> RECT_VERTICES,
          index_buffer |-> RECT_INDICES,
          index_count |-> INDEX_COUNT,
          projection |-> InitProjection,
          projection_buffer |-> Mvp(InitProjection, InitCamera),
          camera |-> InitCamera,
          depth_texture |-> CreateDepthTexture(config) ]

\* resize that forgets the height
Resize_WidthOnly(st, size) ==
    LET config == [st.config EXCEPT !.width = size.width]
    IN  [st EXCEPT !.config = config,
                   !.surface = [configured |-> TRUE,
                                width |-> config.width,
                                height |-> config.height]]

\* resize that rebuilds the depth texture from the configuration before
\* storing the new size in it
Resize_StaleDepth(st, size) ==
    LET config == [st.config EXCEPT !.width = size.width, !.height = size.height]
    IN  [st EXCEPT !.depth_texture = CreateDepthTexture(st.config),
                   !.config = config,
                   !.surface = [configured |-> TRUE,
                                width |-> config.width,
                                height |-> config.height]]

\* State::resize(size)
Resize(st, size) ==
    LET config == [st.config EXCEPT !.width = size.width, !.height = size.height]
    IN  [st EXCEPT !.config = config,
                   !.surface = [configured |-> TRUE,
                                width |-> config.width,
                                height |-> config.height]]

----------------------------------------------------------------------------
(* Window events *)

NoSize == [width |-> 0, height |-> 0]

WindowIds == {"own", "other"}

\* the WindowEvent values that reach App::window_event; "Focused" stands for
\* every variant the match sends to its `_` arm
KeyEvents ==
    [ kind : {"KeyboardInput"}, key_state : {"Pressed", "Released"},
      key : {"Escape", "KeyA"}, size : {NoSize} ]
ResizeEvents ==
    [ kind : {"Resized"}, key_state : {"None"}, key : {"None"}, size : Sizes ]
PlainEvents ==
    [ kind : {"CloseRequested", "RedrawRequested", "Focused"},
      key_state : {"None"}, key : {"None"}, size : {NoSize} ]
Events == KeyEvents \cup ResizeEvents \cup PlainEvents

NoEvent == [window_id |-> "none", event |-> [kind |-> "None", key_state |-> "None",
                                              key |-> "None", size |-> NoSize]]

Dispatched(window_id, event) == [window_id |-> window_id, event |-> event]

\* a first arm that does not look at the key's ElementState
IsExitEvent_AnyEscape(event) ==
    \/ event.kind = "CloseRequested"
    \/ /\ event.kind = "KeyboardInput"
       /\ event.key = "Escape"

\* first match arm: CloseRequested | KeyboardInput { Pressed, Escape }
IsExitEvent(event) ==
    \/ event.kind = "CloseRequested"
    \/ /\ event.kind = "KeyboardInput"
       /\ event.key_state = "Pressed"
       /\ event.key = "Escape"

\* the `_ => ()` arm
IsIgnoredEvent(event) ==
    /\ ~IsExitEvent(event)
    /\ event.kind \notin {"Resized", "RedrawRequested"}

\* the same resize of this window, dispatched right after itself
RepeatsResize(window_id, event) ==
    /\ window_id = "own"
    /\ event.kind = "Resized"
    /\ last_event = Dispatched(window_id, event)

----------------------------------------------------------------------------
(* The redraw in progress *)

NoPass == [recorded |-> FALSE]

NoFrame ==
    [ requests |-> 0, acquired |-> 0, failed |-> 0, passes |-> 0, closed |-> 0,
      submits |-> 0, presents |-> 0, pass |-> NoPass ]

\* draw_indexed(0..index_count, 0, 0..1) with TriangleList topology: the
\* vertex numbers of each triangle, read from the bound index buffer
DrawnTriangles(index_buffer, index_count) ==
    [ k \in 1..(index_count \div 3) |->
        << index_buffer[3 * k - 2], index_buffer[3 * k - 1], index_buffer[3 * k] >> ]

\* the render pass State::redraw records: attachments and bindings
RenderPass(st) ==
    [ recorded |-> TRUE,
      color_attachment |-> [width |-> st.surface.width, height |-> st.surface.height],
      depth_attachment |-> st.depth_texture,
      pipeline |-> st.pipeline,
      bind_group_1 |-> st.projection_buffer,
      vertex_layout |-> st.vertex_layout,
      vertex_buffer |-> st.vertex_buffer,
      index_buffer |-> st.index_buffer,
      indices |-> st.index_count ]

Running == window.exists /\ ~event_loop.exiting

----------------------------------------------------------------------------
(* App::resumed *)

\* create_window, then State::new; the platform decides the inner size the
\* window really gets and the formats the surface supports
Resumed ==
    /\ ~window.exists
    /\ pc = "Idle"
    /\ \E size \in Sizes, formats \in CapsFormats :
          /\ window' = [exists |-> TRUE, inner_size |-> size,
                        redraw_requested |-> FALSE, resized |-> FALSE]
          /\ state' = NewState(size, formats)
    /\ UNCHANGED <<event_loop, pc, frame, last_event, resize_repeated>>

----------------------------------------------------------------------------
(* App::window_event *)

\* `if window_id != state.window.id() {return}`
ForeignWindowEvent ==
    /\ Running /\ pc = "Idle"
    /\ \E event \in Events :
          /\ last_event' = Dispatched("other", event)
          /\ resize_repeated' = FALSE
    /\ UNCHANGED <<state, window, event_loop, pc, frame>>

\* CloseRequested or Escape pressed: event_loop.exit()
ExitRequested ==
    /\ Running /\ pc = "Idle"
    /\ \E event \in Events :
          /\ IsExitEvent(event)
          /\ last_event' = Dispatched("own", event)
    /\ event_loop' = [event_loop EXCEPT !.exiting = TRUE]
    /\ resize_repeated' = FALSE
    /\ UNCHANGED <<state, window, pc, frame>>

\* Resized(new_size): the window has the new size; state.resize(new_size)
Resized ==
    /\ Running /\ pc = "Idle"
    /\ \E event \in ResizeEvents :
          /\ window' = [window EXCEPT !.inner_size = event.size, !.resized = TRUE]
          /\ state' = Resize(state, event.size)
          /\ resize_repeated' = RepeatsResize("own", event)
          /\ last_event' = Dispatched("own", event)
    /\ UNCHANGED <<event_loop, pc, frame>>

\* RedrawRequested: state.update() does nothing, then state.redraw() starts
BeginRedraw ==
    /\ pc' = "RedrawEntry"
    /\ frame' = NoFrame
    /\ last_event' = Dispatched("own", [kind |-> "RedrawRequested", key_state |-> "None",
                                         key |-> "None", size |-> NoSize])
    /\ resize_repeated' = FALSE
    /\ window' = [window EXCEPT !.redraw_requested = FALSE]
    /\ UNCHANGED <<state, event_loop>>

\* the RedrawRequested that winit delivers for a pending request_redraw
RedrawRequestedPending ==
    /\ Running /\ pc = "Idle"
    /\ window.redraw_requested
    /\ BeginRedraw

\* a RedrawRequested the window system sends on its own (window exposed)
RedrawRequestedExposed ==
    /\ Running /\ pc = "Idle"
    /\ ~window.redraw_requested
    /\ BeginRedraw

\* any other event of this window: `_ => ()`
IgnoredEvent ==
    /\ Running /\ pc = "Idle"
    /\ \E event \in Events :
          /\ IsIgnoredEvent(event)
          /\ last_event' = Dispatched("own", event)
    /\ resize_repeated' = FALSE
    /\ UNCHANGED <<state, window, event_loop, pc, frame>>

----------------------------------------------------------------------------
(* State::redraw, statement by statement *)

\* a redraw that never asks for the next one
RequestRedraw_Forgotten ==
    /\ pc = "RedrawEntry"
    /\ pc' = "Acquiring"
    /\ UNCHANGED <<state, window, event_loop, frame, last_event, resize_repeated>>

\* self.window.request_redraw()
RequestRedraw ==
    /\ pc = "RedrawEntry"
    /\ window' = [window EXCEPT !.redraw_requested = TRUE]
    /\ frame' = [frame EXCEPT !.requests = @ + 1]
    /\ pc' = "Acquiring"
    /\ UNCHANGED <<state, event_loop, last_event, resize_repeated>>

\* self.surface.get_current_texture() returns Ok
GetCurrentTextureOk ==
    /\ pc = "Acquiring"
    /\ state.surface.configured
    /\ frame' = [frame EXCEPT !.acquired = @ + 1]
    /\ pc' = "Recording"
    /\ UNCHANGED <<state, window, event_loop, last_event, resize_repeated>>

\* self.surface.get_current_texture() returns Err (lost, outdated, not
\* configured): .unwrap() panics
GetCurrentTextureErr ==
    /\ pc = "Acquiring"
    /\ frame' = [frame EXCEPT !.failed = @ + 1]
    /\ pc' = "Panicked"
    /\ UNCHANGED <<state, window, event_loop, last_event, resize_repeated>>

\* create_view, create_command_encoder, begin_render_pass, set_*, draw_indexed
RecordRenderPass ==
    /\ pc = "Recording"
    /\ frame' = [frame EXCEPT !.passes = @ + 1, !.pass = RenderPass(state)]
    /\ pc' = "PassOpen"
    /\ UNCHANGED <<state, window, event_loop, last_event, resize_repeated>>

\* drop(render_pass)
DropRenderPass ==
    /\ pc = "PassOpen"
    /\ frame' = [frame EXCEPT !.closed = @ + 1]
    /\ pc' = "PassClosed"
    /\ UNCHANGED <<state, window, event_loop, last_event, resize_repeated>>

\* self.queue.submit(once(encoder.finish()))
Submit ==
    /\ pc = "PassClosed"
    /\ frame' = [frame EXCEPT !.submits = @ + 1]
    /\ pc' = "Submitted"
    /\ UNCHANGED <<state, window, event_loop, last_event, resize_repeated>>

\* a redraw that submits and returns without presenting the image
Present_Forgotten ==
    /\ pc = "Submitted"
    /\ pc' = "Presented"
    /\ UNCHANGED <<state, window, event_loop, frame, last_event, resize_repeated>>

\* output.present()
Present ==
    /\ pc = "Submitted"
    /\ frame' = [frame EXCEPT !.presents = @ + 1]
    /\ pc' = "Presented"
    /\ UNCHANGED <<state, window, event_loop, last_event, resize_repeated>>

\* redraw and window_event return
RedrawReturn ==
    /\ pc = "Presented"
    /\ pc' = "Idle"
    /\ UNCHANGED <<state, window, event_loop, frame, last_event, resize_repeated>>

----------------------------------------------------------------------------
(* Specifications *)

\* App::default(): no State, no window yet
Init ==
    /\ state = NoState
    /\ window = [exists |-> FALSE, inner_size |-> NoSize,
                 redraw_requested |-> FALSE, resized |-> FALSE]
    /\ event_loop = [exiting |-> FALSE]
    /\ pc = "Idle"
    /\ frame = NoFrame
    /\ last_event = NoEvent
    /\ resize_repeated = FALSE

RedrawStep ==
    \/ RequestRedraw
    \/ GetCurrentTextureOk
    \/ GetCurrentTextureErr
    \/ RecordRenderPass
    \/ DropRenderPass
    \/ Submit
    \/ Present
    \/ RedrawReturn

Next ==
    \/ Resumed
    \/ ForeignWindowEvent
    \/ ExitRequested
    \/ Resized
    \/ RedrawRequestedPending
    \/ RedrawRequestedExposed
    \/ IgnoredEvent
    \/ RequestRedraw
    \/ GetCurrentTextureOk
    \/ GetCurrentTextureErr
    \/ RecordRenderPass
    \/ DropRenderPass
    \/ Submit
    \/ Present
    \/ RedrawReturn

Spec == Init /\ [][Next]_vars

\* a running handler runs to its end, and winit delivers the RedrawRequested
\* of a pending request_redraw
FairSpec ==
    /\ Spec
    /\ WF_vars(RedrawStep)
    /\ WF_vars(RedrawRequestedPending)

----------------------------------------------------------------------------
(* Properties *)

HasState == state.tag = "Some"

SizeOf(r) == [width |-> r.width, height |-> r.height]

OwnResize == last_event.window_id = "own" /\ last_event.event.kind = "Resized"

\* C1: whenever a State exists (so a redraw can run), the depth texture has
\* the width and height of the render-surface configuration; after
\* resize(640,480) it is 640x480.
C1_DepthMatchesConfig ==
    HasState => SizeOf(state.depth_texture) = SizeOf(state.config)

\* C2: once resize(w,h) has been processed, Projection.aspect is w/h, and
\* fovy, z_near and z_far are the ones of construction.
C2_AspectAfterResize ==
    (HasState /\ OwnResize) =>
        /\ state.projection.aspect = AspectOf(last_event.event.size)
        /\ state.projection.fovy = InitProjection.fovy
        /\ state.projection.z_near = InitProjection.z_near
        /\ state.projection.z_far = InitProjection.z_far

\* the projection x view matrix for the configured surface size
MvpForConfig(st) ==
    Mvp([st.projection EXCEPT !.aspect = AspectOf(SizeOf(st.config))], st.camera)

\* C3: the uniform buffer a redraw binds at slot 1 holds the projection x view
\* matrix computed for the current surface width and height.
C3_BufferHoldsCurrentMvp ==
    (HasState /\ frame.pass.recorded) => frame.pass.bind_group_1 = MvpForConfig(state)

\* C4: when get_current_texture fails, the frame is dropped (nothing
\* submitted, nothing presented) and the application keeps running.
C4_FailedAcquireDropsFrameOnly ==
    frame.failed > 0 =>
        /\ pc # "Panicked"
        /\ frame.submits = 0
        /\ frame.presents = 0

\* the frame states of the orchestrator, from the position in State::redraw
FrameStage ==
    CASE pc = "Idle" -> "Idle"
      [] pc \in {"RedrawEntry", "Acquiring"} -> "Acquiring"
      [] pc \in {"Recording", "PassOpen", "PassClosed"} -> "Recording"
      [] pc = "Submitted" -> "Submitted"
      [] pc = "Presented" -> "Presented"
      [] pc = "Panicked" -> "Panicked"

StageOrder ==
    { <<"Idle", "Acquiring">>, <<"Acquiring", "Recording">>,
      <<"Recording", "Submitted">>, <<"Submitted", "Presented">>,
      <<"Presented", "Idle">>, <<"Acquiring", "Panicked">> }

\* C5: a frame moves Idle, Acquiring, Recording, Submitted, Presented, Idle
\* in this order (or stops at a failed acquisition), each step at most once;
\* submit follows the one closed render pass, present follows submit,
\* between frames every submitted frame has been presented, and a frame in
\* Recording reaches Presented.
C5_FrameOrder ==
    /\ [][FrameStage' # FrameStage => <<FrameStage, FrameStage'>> \in StageOrder]_vars
    /\ [][frame'.submits > frame.submits =>
            frame.passes = 1 /\ frame.closed = 1 /\ frame.submits = 0]_vars
    /\ [][frame'.presents > frame.presents =>
            frame.submits = 1 /\ frame.presents = 0]_vars
    /\ [](frame.acquired <= 1 /\ frame.passes <= 1 /\ frame.closed <= 1)
    /\ [](pc \in {"Idle", "Presented"} => frame.presents = frame.submits)
    /\ [](pc = "Presented" => frame.presents = 1)
    /\ (FrameStage = "Recording" ~> FrameStage = "Presented")

C5_FramePresented ==
    /\ pc = "Presented"
    /\ frame.acquired = 1 /\ frame.passes = 1 /\ frame.closed = 1
    /\ frame.submits = 1 /\ frame.presents = 1

\* C6 as stated: the next redraw is requested only once the frame's image
\* has been acquired and its command buffer submitted.
C6_RequestAfterSubmit ==
    frame.requests > 0 => (frame.acquired = 1 /\ frame.submits = 1)

\* C6 as amended: a presented frame has requested exactly one next redraw,
\* the request is the first thing redraw does (before the image is
\* acquired), and after a presented frame the next redraw starts unless exit
\* was requested.
C6_RequestAtRedrawStart ==
    /\ [](pc = "Presented" => frame.requests = 1 /\ window.redraw_requested)
    /\ [][frame'.requests > frame.requests =>
            pc = "RedrawEntry" /\ frame.requests = 0 /\ frame.acquired = 0]_vars
    /\ (pc = "Presented" ~> (pc = "RedrawEntry" \/ event_loop.exiting))

C6_PresentedWithRequest ==
    pc = "Presented" /\ frame.requests = 1 /\ window.redraw_requested

\* C7: the configuration's width and height are the window's inner size (the
\* size of the last resize event, or the one read at construction), and once
\* a resize has been processed the surface is configured with that size.
C7_ConfigMatchesWindow ==
    HasState =>
        /\ SizeOf(state.config) = window.inner_size
        /\ window.resized =>
              /\ OwnResize => window.inner_size = last_event.event.size
              /\ state.surface = [configured |-> TRUE,
                                  width |-> window.inner_size.width,
                                  height |-> window.inner_size.height]

C7_ResizedTo640x480 ==
    /\ HasState /\ OwnResize
    /\ last_event.event.size = [width |-> 640, height |-> 480]
    /\ SizeOf(state.config) = [width |-> 640, height |-> 480]
    /\ state.config.width # state.depth_texture.width

\* the events that ask for exit, in the words of the interface
CloseOrEscapePressed(e) ==
    e.kind = "CloseRequested"
        \/ (e.kind = "KeyboardInput" /\ e.key = "Escape" /\ e.key_state = "Pressed")

\* C8: dispatching close-requested or Escape-pressed of this window requests
\* exit and leaves State alone; dispatching anything but these, a resize or
\* a redraw-requested, or any event of another window, changes neither State
\* nor the exit request and starts no redraw.
C8_EventDispatch ==
    [][(pc = "Idle" /\ window.exists) =>
        LET e == last_event'.event
            own == last_event'.window_id = "own"
        IN  /\ (own /\ CloseOrEscapePressed(e)) =>
                  /\ event_loop'.exiting
                  /\ UNCHANGED <<state, pc, frame>>
            /\ (~own \/ (~CloseOrEscapePressed(e)
                            /\ e.kind \notin {"Resized", "RedrawRequested"})) =>
                  UNCHANGED <<state, event_loop, pc, frame, window>>]_vars

C8_EscapeReleasedIgnored ==
    /\ last_event.window_id = "own"
    /\ last_event.event.kind = "KeyboardInput"
    /\ last_event.event.key = "Escape"
    /\ last_event.event.key_state = "Released"
    /\ ~event_loop.exiting

\* C9: a resize(w,h) dispatched right after the same resize(w,h) leaves the
\* configuration, the depth texture and the Projection as the first left them.
C9_ResizeIdempotent ==
    [][(pc = "Idle" /\ window.exists /\ resize_repeated') =>
          /\ state'.config = state.config
          /\ state'.depth_texture = state.depth_texture
          /\ state'.projection = state.projection]_vars

C9_ResizedTwice ==
    /\ resize_repeated
    /\ SizeOf(state.config) = last_event.event.size
    /\ SizeOf(state.depth_texture) # SizeOf(state.config)

\* C10: the Projection of State::new has fovy pi/4 (45 degrees), near 0.1,
\* far 100.0 and aspect 1280/720, within 0 < fovy < pi and 0 < near < far.
C10_StartupProjection ==
    (HasState /\ ~window.resized) =>
        /\ state.projection.fovy = PI \div 4
        /\ 0 < state.projection.fovy /\ state.projection.fovy < PI
        /\ state.projection.z_near = 100 /\ state.projection.z_far = 100000
        /\ 0 < state.projection.z_near
        /\ state.projection.z_near < state.projection.z_far
        /\ state.projection.aspect = Frac(1280, 720)
        /\ state.projection.aspect.num > 0

\* C11: the pipeline's color-target format is the configured surface format
\* and its vertex layout is the TextureVertex layout of the vertex buffer a
\* redraw binds; no step rebuilds the pipeline or changes anything of the
\* configuration but its width and height.
C11_PipelineMatchesSurface ==
    /\ [](HasState =>
            /\ state.pipeline.color_format = state.config.format
            /\ state.pipeline.vertex_layout = "TextureVertex"
            /\ frame.pass.recorded =>
                  /\ frame.pass.pipeline = state.pipeline
                  /\ frame.pass.vertex_layout = frame.pass.pipeline.vertex_layout)
    /\ [][HasState =>
            /\ state'.pipeline = state.pipeline
            /\ state'.config = [state.config EXCEPT !.width = state'.config.width,
                                                    !.height = state'.config.height]]_vars

C11_DrawnAfterResize ==
    /\ HasState /\ window.resized /\ frame.pass.recorded
    /\ SizeOf(state.config) # SizeOf(state.depth_texture)
    /\ state.config.format = "Bgra8UnormSrgb"

\* twice the signed area of the triangle a, b, c in the XY plane (positive
\* when counter-clockwise)
SignedArea2(a, b, c) == (b.x - a.x) * (c.y - a.y) - (b.y - a.y) * (c.x - a.x)

Corners(t) == {t[1], t[2], t[3]}

\* C12: the draw covers the whole index buffer (6 indices), every index is
\* one of the 4 vertices, and the two triangles drawn are counter-clockwise,
\* share exactly the diagonal 0-2, lie on opposite sides of it and have
\* together the area of the quad spanned by the 4 vertices (side 1.0).
C12_QuadTriangles ==
    frame.pass.recorded =>
        LET ib == frame.pass.index_buffer
            vb == frame.pass.vertex_buffer
            tris == DrawnTriangles(ib, frame.pass.indices)
            V(i) == vb[i + 1]
            Area2(t) == SignedArea2(V(t[1]), V(t[2]), V(t[3]))
            xs == {vb[i].x : i \in 1..Len(vb)}
            ys == {vb[i].y : i \in 1..Len(vb)}
        IN  /\ frame.pass.indices = Len(ib)
            /\ Len(ib) = 6
            /\ ib = <<0, 1, 2, 0, 2, 3>>
            /\ Len(vb) = 4
            /\ \A i \in 1..Len(ib) : ib[i] \in 0..(Len(vb) - 1)
            /\ Len(tris) = 2
            /\ \A k \in 1..Len(tris) : Area2(tris[k]) > 0
            /\ Corners(tris[1]) \cap Corners(tris[2]) = {0, 2}
            /\ Corners(tris[1]) \cup Corners(tris[2]) = 0..3
            /\ \A a \in Corners(tris[1]) \ {0, 2}, b \in Corners(tris[2]) \ {0, 2} :
                  \/ SignedArea2(V(0), V(2), V(a)) > 0 /\ SignedArea2(V(0), V(2), V(b)) < 0
                  \/ SignedArea2(V(0), V(2), V(a)) < 0 /\ SignedArea2(V(0), V(2), V(b)) > 0
            /\ xs = {-500, 500} /\ ys = {-500, 500}
            /\ {<<vb[i].x, vb[i].y>> : i \in 1..Len(vb)} = xs \X ys
            /\ Area2(tris[1]) + Area2(tris[2]) = 2 * 1000 * 1000

C12_QuadDrawn ==
    /\ frame.pass.recorded
    /\ frame.pass.indices = 6
    /\ frame.submits = 1

\* C13: whenever redraw has called get_current_texture, surface.configure
\* had been called with the stored configuration.
C13_ConfiguredBeforeAcquire ==
    (HasState /\ frame.acquired + frame.failed > 0) =>
        /\ state.surface.configured
        /\ SizeOf(state.surface) = SizeOf(state.config)

====
